---- MODULE Spec2Model ----
(***************************************************************************)
(* musicsync: one-way mirror of a playlist's files onto a volume.          *)
(*                                                                         *)
(* Python strings are modelled as sequences of one-character strings, so   *)
(* that the character-wise prefix search of find_root_directory, the       *)
(* os.path functions and the Unicode normalisation act on the same data    *)
(* as in the program.  The combining acute accent is written "^" and the   *)
(* precomposed a-acute and e-acute are written "A" and "E": NFKC turns     *)
(* <<"a","^">> into <<"A">> and <<"e","^">> into <<"E">>.                  *)
(* The file system is one tree of directories and sized files that holds   *)
(* the music library (under /m) and the volume (/v).  rm, mkdir and ditto  *)
(* are taken to succeed wherever the file system allows them.              *)
(***************************************************************************)
EXTENDS Integers, Sequences, FiniteSets, TLC

MaxSongs == 2
MaxDest == 2

SEP == "/"
DOT == <<".">>
DOTDOT == <<".", ".">>
EMPTY == <<>>

(***************************************************************************)
(* str helpers                                                             *)
(***************************************************************************)
StartsWith(s, p) == Len(p) <= Len(s) /\ SubSeq(s, 1, Len(p)) = p

Drop(s, n) == SubSeq(s, n + 1, Len(s))

HasSep(s) == \E i \in 1..Len(s) : s[i] = SEP

FirstSep(s) == CHOOSE i \in 1..Len(s) : s[i] = SEP /\ \A j \in 1..(i - 1) : s[j] # SEP

LastSep(s) == CHOOSE i \in 1..Len(s) : s[i] = SEP /\ \A j \in (i + 1)..Len(s) : s[j] # SEP

\* s.split(os.path.sep)
RECURSIVE StrSplit(_)
StrSplit(s) ==
    IF ~HasSep(s) THEN <<s>>
    ELSE <<SubSeq(s, 1, FirstSep(s) - 1)>> \o StrSplit(Drop(s, FirstSep(s)))

\* os.path.sep.join(parts)
RECURSIVE StrJoin(_)
StrJoin(parts) ==
    IF parts = <<>> THEN EMPTY
    ELSE IF Len(parts) = 1 THEN parts[1]
    ELSE parts[1] \o <<SEP>> \o StrJoin(Tail(parts))

\* s.rstrip("/")
RECURSIVE RStripSep(_)
RStripSep(s) ==
    IF s # <<>> /\ s[Len(s)] = SEP THEN RStripSep(SubSeq(s, 1, Len(s) - 1)) ELSE s

(***************************************************************************)
(* norm: unicodedata.normalize("NFKC", s)                                  *)
(***************************************************************************)
\* no normalisation at all
norm_identity(s) == s

RECURSIVE norm(_)
norm(s) ==
    IF s = <<>> THEN <<>>
    ELSE IF Len(s) >= 2 /\ s[1] = "a" /\ s[2] = "^"
         THEN <<"A">> \o norm(Drop(s, 2))
    ELSE IF Len(s) >= 2 /\ s[1] = "e" /\ s[2] = "^"
         THEN <<"E">> \o norm(Drop(s, 2))
         ELSE <<s[1]>> \o norm(Tail(s))

NormAll(names) == [i \in 1..Len(names) |-> norm(names[i])]

SeqRange(q) == {q[i] : i \in 1..Len(q)}

(***************************************************************************)
(* os.path                                                                 *)
(***************************************************************************)
\* os.path.join(a, b)
os_path_join(a, b) ==
    IF b # <<>> /\ b[1] = SEP THEN b
    ELSE IF a = <<>> \/ a[Len(a)] = SEP THEN a \o b
    ELSE a \o <<SEP>> \o b

\* os.path.split(p): <<head, tail>>
os_path_split(p) ==
    IF ~HasSep(p) THEN <<EMPTY, p>>
    ELSE LET i == LastSep(p)
             head == SubSeq(p, 1, i)
         IN  <<IF RStripSep(head) = <<>> THEN head ELSE RStripSep(head), Drop(p, i)>>

\* the components of os.path.abspath(p) for an absolute p: normpath drops
\* empty and "." components and resolves ".." lexically
RECURSIVE NormParts(_, _)
NormParts(done, todo) ==
    IF todo = <<>> THEN done
    ELSE LET c == Head(todo) IN
         IF c = EMPTY \/ c = DOT THEN NormParts(done, Tail(todo))
         ELSE IF c = DOTDOT
              THEN NormParts(IF done = <<>> THEN done ELSE SubSeq(done, 1, Len(done) - 1),
                             Tail(todo))
              ELSE NormParts(Append(done, c), Tail(todo))

AbsParts(p) == NormParts(<<>>, StrSplit(p))

RECURSIVE CommonLen(_, _)
CommonLen(a, b) ==
    IF a # <<>> /\ b # <<>> /\ Head(a) = Head(b) THEN 1 + CommonLen(Tail(a), Tail(b)) ELSE 0

Repeat(x, n) == [i \in 1..n |-> x]

\* os.path.relpath(path, start), both absolute
os_path_relpath(path, start) ==
    LET start_list == AbsParts(start)
        path_list == AbsParts(path)
        i == CommonLen(start_list, path_list)
        rel_list == Repeat(DOTDOT, Len(start_list) - i) \o Drop(path_list, i)
    IN  IF rel_list = <<>> THEN DOT ELSE StrJoin(rel_list)

(***************************************************************************)
(* find_root_directory                                                     *)
(***************************************************************************)
\* max(files, key=len): the first of the longest
Longest(files) ==
    files[CHOOSE i \in 1..Len(files) :
            /\ \A j \in 1..Len(files) : Len(files[j]) <= Len(files[i])
            /\ \A j \in 1..(i - 1) : Len(files[j]) < Len(files[i])]

RECURSIVE ShrinkPrefix(_, _)
ShrinkPrefix(prefix, files) ==
    IF Len(prefix) > 0 /\ ~(\A i \in 1..Len(files) : StartsWith(files[i], prefix))
    THEN ShrinkPrefix(SubSeq(prefix, 1, Len(prefix) - 1), files)
    ELSE prefix

\* the prefix cut back to the last separator in it
find_root_directory_snapped(files) ==
    LET prefix == ShrinkPrefix(Longest(files), files)
    IN  IF HasSep(prefix) THEN SubSeq(prefix, 1, LastSep(prefix)) ELSE EMPTY

find_root_directory(files) == ShrinkPrefix(Longest(files), files)

(***************************************************************************)
(* class directory and build_playlist_tree.  A tree is a function from the *)
(* key path of a node (the dirs keys from the root, <<>> for the root) to  *)
(* the node; dirs lists the keys of ptr.dirs in insertion order.           *)
(***************************************************************************)
directory == [dirs |-> <<>>, files |-> <<>>]

\* the loop over dirs.split(os.path.sep): <<tree, ptr>> after it
RECURSIVE Descend(_, _, _)
Descend(tree, ptr, ds) ==
    IF ds = <<>> THEN <<tree, ptr>>
    ELSE LET d_norm == norm(Head(ds))
             child == Append(ptr, d_norm)
         IN  Descend(IF d_norm \notin SeqRange(tree[ptr].dirs)
                     THEN [tree EXCEPT ![ptr].dirs = Append(@, d_norm)] @@ (child :> directory)
                     ELSE tree,
                     child, Tail(ds))

\* the body of the loop over songs
AddSong(tree, entry, root) ==
    LET sp == os_path_split(os_path_relpath(entry, root))
        at == Descend(tree, <<>>, StrSplit(sp[1]))
    IN  [at[1] EXCEPT ![at[2]].files = Append(@, sp[2])]

RECURSIVE AddSongs(_, _, _)
AddSongs(tree, songs, root) ==
    IF songs = <<>> THEN tree
    ELSE AddSongs(AddSong(tree, Head(songs), root), Tail(songs), root)

build_playlist_tree(songs, root) == AddSongs(<<>> :> directory, songs, root)

RECURSIVE SumSeq(_)
SumSeq(q) == IF q = <<>> THEN 0 ELSE Head(q) + SumSeq(Tail(q))

RECURSIVE count_dirs(_, _)
count_dirs(tree, p) ==
    Len(tree[p].dirs)
    + SumSeq([i \in 1..Len(tree[p].dirs) |-> count_dirs(tree, Append(p, tree[p].dirs[i]))])

RECURSIVE count_files(_, _)
count_files(tree, p) ==
    Len(tree[p].files)
    + SumSeq([i \in 1..Len(tree[p].dirs) |-> count_files(tree, Append(p, tree[p].dirs[i]))])

(***************************************************************************)
(* The file system behind os.walk, os.path.isdir, os.path.exists, os.stat, *)
(* rm, mkdir -p and ditto.  A location is the sequence of names from "/".  *)
(* f.dirs are the directories, f.files maps the files to their sizes.  The *)
(* library is on a volume that finds a name under any canonically         *)
(* equivalent spelling (the Music application's own volume); f.exact tells *)
(* whether the destination volume finds a name only byte for byte.         *)
(***************************************************************************)
\* canonical decomposition (NFD) of a name
RECURSIVE Decompose(_)
Decompose(s) ==
    IF s = <<>> THEN <<>>
    ELSE IF s[1] = "A" THEN <<"a", "^">> \o Decompose(Tail(s))
    ELSE IF s[1] = "E" THEN <<"e", "^">> \o Decompose(Tail(s))
    ELSE <<s[1]>> \o Decompose(Tail(s))

\* canonical equivalence of two names, and of two sequences of names
Equivalent(a, b) == Decompose(a) = Decompose(b)

EquivalentAll(p, q) ==
    Len(p) = Len(q) /\ \A i \in 1..Len(p) : Equivalent(p[i], q[i])

volume == <<"/", "v">>

VolumeLoc == <<<<"v">>>>

Parent(loc) == IF loc = <<>> THEN loc ELSE SubSeq(loc, 1, Len(loc) - 1)

IsUnder(loc, top) == Len(top) <= Len(loc) /\ SubSeq(loc, 1, Len(top)) = top

Present(f, loc) == loc \in f.dirs \/ loc \in DOMAIN f.files

\* the names os.scandir finds in a directory
SubdirNames(f, cur) == {d[Len(d)] : d \in {x \in f.dirs : x # <<>> /\ Parent(x) = cur}}

FileNames(f, cur) == {d[Len(d)] : d \in {x \in DOMAIN f.files : Parent(x) = cur}}

Exact(f, cur) == f.exact /\ IsUnder(cur, VolumeLoc)

\* the stored name that the name c finds in the directory cur
Child(f, cur, c) ==
    LET same == {n \in SubdirNames(f, cur) \cup FileNames(f, cur) : Equivalent(n, c)}
    IN  IF Exact(f, cur) \/ same = {} THEN c ELSE CHOOSE n \in same : TRUE

\* path resolution: every component but the last must be a directory, and
\* "", "." and ".." are looked up in a directory
RECURSIVE Lookup(_, _, _)
Lookup(f, cur, comps) ==
    IF comps = <<>> THEN [ok |-> TRUE, loc |-> cur]
    ELSE IF cur \notin f.dirs THEN [ok |-> FALSE, loc |-> cur]
    ELSE LET c == Head(comps) IN
         IF c = EMPTY \/ c = DOT THEN Lookup(f, cur, Tail(comps))
         ELSE IF c = DOTDOT THEN Lookup(f, Parent(cur), Tail(comps))
         ELSE LET nxt == Append(cur, Child(f, cur, c)) IN
              IF Present(f, nxt) THEN Lookup(f, nxt, Tail(comps))
              ELSE [ok |-> FALSE, loc |-> nxt]

Resolve(f, path) == Lookup(f, <<>>, StrSplit(path))

os_path_exists(f, path) == Resolve(f, path).ok

os_path_isdir(f, path) == LET r == Resolve(f, path) IN r.ok /\ r.loc \in f.dirs

IsFile(f, path) == LET r == Resolve(f, path) IN r.ok /\ r.loc \in DOMAIN f.files

\* os.stat(path).st_size; a directory has no size of a file
st_size(f, path) ==
    LET r == Resolve(f, path) IN IF r.loc \in DOMAIN f.files THEN f.files[r.loc] ELSE 0

Restrict(fn, S) == [x \in S |-> fn[x]]

\* rm -r path / rm path
Remove(f, path) ==
    LET r == Resolve(f, path) IN
    IF ~r.ok THEN f
    ELSE [f EXCEPT !.dirs = {d \in @ : ~IsUnder(d, r.loc)},
                   !.files = Restrict(@, {x \in DOMAIN @ : ~IsUnder(x, r.loc)})]

\* mkdir -p path: the directories it makes, walking the path by component
RECURSIVE MkdirFrom(_, _, _)
MkdirFrom(f, cur, comps) ==
    IF comps = <<>> \/ cur \notin f.dirs THEN f
    ELSE LET c == Head(comps) IN
         IF c = EMPTY \/ c = DOT THEN MkdirFrom(f, cur, Tail(comps))
         ELSE IF c = DOTDOT THEN MkdirFrom(f, Parent(cur), Tail(comps))
         ELSE LET nxt == Append(cur, Child(f, cur, c)) IN
              IF nxt \in DOMAIN f.files THEN f
              ELSE MkdirFrom([f EXCEPT !.dirs = @ \cup {nxt}], nxt, Tail(comps))

MkdirP(f, path) == MkdirFrom(f, <<>>, StrSplit(path))

\* ditto src dir: the file src, under its own name, in the directory dir
DittoTarget(f, src, dir) ==
    LET into == Resolve(f, dir).loc IN Append(into, Child(f, into, os_path_split(src)[2]))

Ditto(f, src, dir) ==
    IF IsFile(f, src) /\ os_path_isdir(f, dir) /\ DittoTarget(f, src, dir) \notin f.dirs
    THEN [f EXCEPT !.files = (DittoTarget(f, src, dir) :> st_size(f, src)) @@ @]
    ELSE f

RECURSIVE SetToSeq(_)
SetToSeq(S) ==
    IF S = {} THEN <<>>
    ELSE LET x == CHOOSE y \in S : TRUE IN <<x>> \o SetToSeq(S \ {x})

RECURSIVE Flatten(_)
Flatten(qs) == IF qs = <<>> THEN <<>> ELSE Head(qs) \o Flatten(Tail(qs))

(***************************************************************************)
(* cleanup_volume: the body of the loop over os.walk(volume), for the      *)
(* directory pwd and the file names os.walk lists in it.  The result is    *)
(* the commands it runs, in order.                                         *)
(***************************************************************************)
\* the loop over dir_parts: whether it ends truncated, and ptr after it.
\* ptr.dirs[d_norm] is there whenever d_norm is in map(norm, ptr.dirs),
\* because the keys of ptr.dirs are normalised and norm is idempotent.
\* the same with the first name of dir_parts alone compared
MatchParts_top_only(tree, ptr, dir_parts) ==
    IF dir_parts = <<>> THEN [truncated |-> FALSE, ptr |-> ptr]
    ELSE LET d_norm == norm(Head(dir_parts)) IN
         IF d_norm \notin SeqRange(NormAll(tree[ptr].dirs))
         THEN [truncated |-> TRUE, ptr |-> ptr]
         ELSE [truncated |-> FALSE, ptr |-> Append(ptr, d_norm)]

RECURSIVE MatchParts(_, _, _)
MatchParts(tree, ptr, dir_parts) ==
    IF dir_parts = <<>> THEN [truncated |-> FALSE, ptr |-> ptr]
    ELSE LET d_norm == norm(Head(dir_parts)) IN
         IF d_norm \notin SeqRange(NormAll(tree[ptr].dirs))
         THEN [truncated |-> TRUE, ptr |-> ptr]
         ELSE MatchParts(tree, Append(ptr, d_norm), Tail(dir_parts))

\* [f for f in files if norm(f) not in map(norm, ptr.files)]
Unmatched(files, ptr_files) ==
    SelectSeq(files, LAMBDA n : norm(n) \notin SeqRange(NormAll(ptr_files)))

\* the same without the continue that follows a truncated directory
cleanup_body_no_continue(tree, pwd, files) ==
    LET relpath == os_path_relpath(pwd, volume)
        at == IF relpath # DOT THEN MatchParts(tree, <<>>, StrSplit(relpath))
              ELSE [truncated |-> FALSE, ptr |-> <<>>]
        gone == Unmatched(files, tree[at.ptr].files)
    IN  (IF at.truncated THEN <<[op |-> "rmdir", path |-> pwd]>> ELSE <<>>)
        \o [i \in 1..Len(gone) |-> [op |-> "rm", path |-> os_path_join(pwd, gone[i])]]

cleanup_body(tree, pwd, files) ==
    LET relpath == os_path_relpath(pwd, volume)
        at == IF relpath # DOT THEN MatchParts(tree, <<>>, StrSplit(relpath))
              ELSE [truncated |-> FALSE, ptr |-> <<>>]
        gone == Unmatched(files, tree[at.ptr].files)
    IN  IF at.truncated THEN <<[op |-> "rmdir", path |-> pwd]>>
        ELSE [i \in 1..Len(gone) |-> [op |-> "rm", path |-> os_path_join(pwd, gone[i])]]

(***************************************************************************)
(* copy_structure(tree, ptr, root): the steps of the recursion in the      *)
(* order the program takes them.  The tree and the paths do not depend on  *)
(* the file system, which each step reads when it is taken.                *)
(***************************************************************************)
RECURSIVE CopySteps(_, _, _, _)
CopySteps(tree, node, ptr, root) ==
    LET subdirs == tree[node].dirs
        ptr_n == norm(ptr)
    IN  Flatten([i \in 1..Len(subdirs) |->
                    LET new_ptr == norm(os_path_join(ptr, subdirs[i]))
                        new_root == norm(os_path_join(root, subdirs[i]))
                    IN  <<[kind |-> "dir", new_ptr |-> new_ptr]>>
                        \o CopySteps(tree, Append(node, subdirs[i]), new_ptr, new_root)])
        \o [i \in 1..Len(tree[node].files) |->
               [kind |-> "file",
                src |-> os_path_join(root, tree[node].files[i]),
                dst |-> norm(os_path_join(ptr_n, tree[node].files[i])),
                ptr_n |-> ptr_n]]

\* not os.path.exists(dst) or src_st.st_size != os.stat(dst).st_size
NeedsCopy(f, src, dst) ==
    ~os_path_exists(f, dst) \/ st_size(f, src) # st_size(f, dst)

(***************************************************************************)
(* The inputs: the playlist's files, as get_playlist_files returns them    *)
(* (sorted), the sizes of the files in the library, and what the volume    *)
(* holds before the run.                                                   *)
(***************************************************************************)
Library ==
    { [path |-> <<"/", "m", "/", "b", "/", "s">>, size |-> 2],
      [path |-> <<"/", "m", "/", "b", "/", "c", "/", "t">>, size |-> 2],
      [path |-> <<"/", "m", "/", "e", "^", "/", "s">>, size |-> 2],
      [path |-> <<"/", "m", "/", "b", "/", "a", "^">>, size |-> 2],
      [path |-> <<"/", "m", "/", "s", "/", "x">>, size |-> 3],
      [path |-> <<"/", "m", "/", "s", "1">>, size |-> 3] }

LibraryPaths == {e.path : e \in Library}

SizeOf(path) == (CHOOSE e \in Library : e.path = path).size

\* locations below the volume
OnVolume ==
    { [rel |-> <<<<"s", "1">>>>, size |-> 3],
      [rel |-> <<<<"b">>, <<"s">>>>, size |-> 1],
      [rel |-> <<<<"b">>, <<"c">>, <<"t">>>>, size |-> 2],
      [rel |-> <<<<"E">>, <<"s">>>>, size |-> 1],
      [rel |-> <<<<"e", "^">>, <<"s">>>>, size |-> 1],
      [rel |-> <<<<"b">>, <<"A">>>>, size |-> 1],
      [rel |-> <<<<"o">>, <<"u">>, <<"j">>>>, size |-> 1] }

\* the code points that order the strings
CodePoint(c) ==
    CASE c = "." -> 46  [] c = "/" -> 47  [] c = "1" -> 49
      [] c = "a" -> 97  [] c = "b" -> 98  [] c = "c" -> 99  [] c = "e" -> 101 [] c = "m" -> 109
      [] c = "s" -> 115 [] c = "t" -> 116 [] c = "x" -> 120
      [] c = "A" -> 225 [] c = "E" -> 233 [] c = "^" -> 769

RECURSIVE StrLeq(_, _)
StrLeq(a, b) ==
    IF a = <<>> THEN TRUE
    ELSE IF b = <<>> THEN FALSE
    ELSE IF Head(a) = Head(b) THEN StrLeq(Tail(a), Tail(b))
    ELSE CodePoint(Head(a)) < CodePoint(Head(b))

IsSorted(q) == \A i \in 1..(Len(q) - 1) : StrLeq(q[i], q[i + 1])

SongLists == UNION {{q \in [1..n -> LibraryPaths] : IsSorted(q)} : n \in 1..MaxSongs}

VolumeContents(ex) ==
    {S \in SUBSET OnVolume :
        /\ Cardinality(S) <= MaxDest
        /\ ex \/ \A a, b \in S : EquivalentAll(a.rel, b.rel) => a = b}

Prefixes(loc) == {SubSeq(loc, 1, k) : k \in 0..(Len(loc) - 1)}

InitialFiles(songs, S) ==
    [loc \in {AbsParts(p) : p \in SeqRange(songs)} \cup {VolumeLoc \o e.rel : e \in S} |->
        IF IsUnder(loc, VolumeLoc)
        THEN (CHOOSE e \in S : VolumeLoc \o e.rel = loc).size
        ELSE SizeOf(CHOOSE p \in SeqRange(songs) : AbsParts(p) = loc)]

InitialFS(songs, S, ex) ==
    [dirs |-> {VolumeLoc} \cup UNION {Prefixes(loc) : loc \in DOMAIN InitialFiles(songs, S)},
     files |-> InitialFiles(songs, S),
     exact |-> ex]

(***************************************************************************)
(* main                                                                    *)
(***************************************************************************)
VARIABLES songlist, fs, pc, run, root, tree, walk, steps, fs0, log

vars == <<songlist, fs, pc, run, root, tree, walk, steps, fs0, log>>

Init ==
    /\ songlist \in SongLists
    /\ \E ex \in BOOLEAN : \E S \in VolumeContents(ex) : fs = InitialFS(songlist, S, ex)
    /\ pc = "start"
    /\ run = 1
    /\ root = <<>>
    /\ tree = <<>> :> directory
    /\ walk = <<>>
    /\ steps = <<>>
    /\ fs0 = fs
    /\ log = <<>>

Entry(op, loc) == [run |-> run, op |-> op, loc |-> loc]

\* root = find_root_directory(songlist)
FindRoot ==
    /\ pc = "start"
    /\ root' = find_root_directory(songlist)
    /\ pc' = "root"
    /\ UNCHANGED <<songlist, fs, run, tree, walk, steps, fs0, log>>

\* songtree = build_playlist_tree(songlist, root)
BuildTree ==
    /\ pc = "root"
    /\ tree' = build_playlist_tree(songlist, root)
    /\ pc' = "tree"
    /\ UNCHANGED <<songlist, fs, run, root, walk, steps, fs0, log>>

\* cleanup_volume(volume, songtree): os.walk(volume) starts at the top
BeginCleanup ==
    /\ pc = "tree"
    /\ walk' = <<volume>>
    /\ fs0' = fs
    /\ pc' = "cleanup"
    /\ UNCHANGED <<songlist, fs, run, root, tree, steps, log>>

RECURSIVE RunAll(_, _)
RunAll(f, cmds) == IF cmds = <<>> THEN f ELSE RunAll(Remove(f, Head(cmds).path), Tail(cmds))

\* os.walk lists the next directory and yields it; the loop body runs; the
\* walk will go on with the subdirectories it has listed
CleanupVisit ==
    /\ pc = "cleanup"
    /\ walk # <<>>
    /\ os_path_isdir(fs, Head(walk))
    /\ LET pwd == Head(walk)
           here == Resolve(fs, pwd).loc
           dirs == SetToSeq(SubdirNames(fs, here))
           files == SetToSeq(FileNames(fs, here))
           cmds == cleanup_body(tree, pwd, files)
       IN  /\ fs' = RunAll(fs, cmds)
           /\ log' = log \o <<Entry("visit", here)>>
                         \o [i \in 1..Len(cmds) |->
                               Entry(cmds[i].op, Resolve(fs, cmds[i].path).loc)]
           /\ walk' = [i \in 1..Len(dirs) |-> os_path_join(pwd, dirs[i])] \o Tail(walk)
    /\ UNCHANGED <<songlist, pc, run, root, tree, steps, fs0>>

\* os.walk cannot list a directory that is gone and yields nothing for it
WalkSkip ==
    /\ pc = "cleanup"
    /\ walk # <<>>
    /\ ~os_path_isdir(fs, Head(walk))
    /\ walk' = Tail(walk)
    /\ UNCHANGED <<songlist, fs, pc, run, root, tree, steps, fs0, log>>

\* copy_structure(songtree, volume, root)
BeginCopy ==
    /\ pc = "cleanup"
    /\ walk = <<>>
    /\ steps' = CopySteps(tree, <<>>, volume, root)
    /\ pc' = "copy"
    /\ UNCHANGED <<songlist, fs, run, root, tree, walk, fs0, log>>

\* one turn of the loop over tree.dirs, up to the recursive call
CopyDir ==
    /\ pc = "copy"
    /\ steps # <<>>
    /\ Head(steps).kind = "dir"
    /\ LET new_ptr == Head(steps).new_ptr IN
       IF ~os_path_isdir(fs, new_ptr)
       THEN /\ fs' = MkdirP(fs, new_ptr)
            /\ log' = Append(log, Entry("mkdir", Resolve(fs', new_ptr).loc))
       ELSE UNCHANGED <<fs, log>>
    /\ steps' = Tail(steps)
    /\ UNCHANGED <<songlist, pc, run, root, tree, walk, fs0>>

\* one turn of the loop over tree.files
CopyFile ==
    /\ pc = "copy"
    /\ steps # <<>>
    /\ Head(steps).kind = "file"
    /\ os_path_exists(fs, Head(steps).src)
    /\ LET src == Head(steps).src
           dst == Head(steps).dst
           ptr_n == Head(steps).ptr_n
       IN  IF NeedsCopy(fs, src, dst)
           THEN /\ fs' = Ditto(fs, src, ptr_n)
                /\ log' = Append(log, Entry("copy", DittoTarget(fs, src, ptr_n)))
           ELSE UNCHANGED <<fs, log>>
    /\ steps' = Tail(steps)
    /\ UNCHANGED <<songlist, pc, run, root, tree, walk, fs0>>

\* os.stat(src) raises and the run ends there
StatFails ==
    /\ pc = "copy"
    /\ steps # <<>>
    /\ Head(steps).kind = "file"
    /\ ~os_path_exists(fs, Head(steps).src)
    /\ pc' = "crashed"
    /\ UNCHANGED <<songlist, fs, run, root, tree, walk, steps, fs0, log>>

\* main returns
Finish ==
    /\ pc = "copy"
    /\ steps = <<>>
    /\ pc' = "done"
    /\ UNCHANGED <<songlist, fs, run, root, tree, walk, steps, fs0, log>>

Next ==
    \/ FindRoot
    \/ BuildTree
    \/ BeginCleanup
    \/ CleanupVisit
    \/ WalkSkip
    \/ BeginCopy
    \/ CopyDir
    \/ CopyFile
    \/ StatFails
    \/ Finish

Spec == Init /\ [][Next]_vars

\* the program is run once more on the same playlist
Rerun ==
    /\ pc = "done"
    /\ run = 1
    /\ run' = 2
    /\ pc' = "start"
    /\ UNCHANGED <<songlist, fs, root, tree, walk, steps, fs0, log>>

NextAgain == Next \/ Rerun

SpecAgain == Init /\ [][NextAgain]_vars

\* copy_structure alone, on the volume as it is
CopyOnly ==
    /\ pc = "tree"
    /\ steps' = CopySteps(tree, <<>>, volume, root)
    /\ pc' = "copy"
    /\ UNCHANGED <<songlist, fs, run, root, tree, walk, fs0, log>>

\* copy_structure once more with the same arguments
CopyAgain ==
    /\ pc = "done"
    /\ run = 1
    /\ run' = 2
    /\ steps' = CopySteps(tree, <<>>, volume, root)
    /\ pc' = "copy"
    /\ UNCHANGED <<songlist, fs, root, tree, walk, fs0, log>>

NextCopy ==
    \/ FindRoot
    \/ BuildTree
    \/ CopyOnly
    \/ CopyDir
    \/ CopyFile
    \/ StatFails
    \/ Finish
    \/ CopyAgain

SpecCopy == Init /\ [][NextCopy]_vars

(***************************************************************************)
(* Properties                                                              *)
(***************************************************************************)
Songs == 1..Len(songlist)

\* the names of a song's path relative to the root, the file name last
RelParts(i) == StrSplit(os_path_relpath(songlist[i], root))

\* the directories the songs name below the root
SourceDirs == UNION {{SubSeq(RelParts(i), 1, k) : k \in 1..(Len(RelParts(i)) - 1)} : i \in Songs}

Below(loc) == Drop(loc, Len(VolumeLoc))

VolumeFiles(f) == {loc \in DOMAIN f.files : IsUnder(loc, VolumeLoc)}

VolumeDirs(f) == {loc \in f.dirs : IsUnder(loc, VolumeLoc) /\ loc # VolumeLoc}

Logged(ops) == {k \in 1..Len(log) : log[k].op \in ops}

Mutations == {"rm", "rmdir", "mkdir", "copy"}

CleanupOver == pc = "cleanup" /\ walk = <<>>

IsCommonPrefix(p, files) == \A i \in 1..Len(files) : StartsWith(files[i], p)

\* C7: find_root_directory returns the longest string that is a prefix of
\* every path of the list, and the path itself for a list of one path.
C7_LongestCommonPrefix ==
    pc # "start" =>
        /\ IsCommonPrefix(root, songlist)
        /\ \A k \in (Len(root) + 1)..Len(songlist[1]) :
              ~IsCommonPrefix(SubSeq(songlist[1], 1, k), songlist)
        /\ Len(songlist) = 1 => root = songlist[1]

\* two different paths whose common prefix ends inside a name
C7_Witness ==
    /\ pc = "root"
    /\ Len(songlist) = 2
    /\ songlist[1] # songlist[2]
    /\ root # <<>>
    /\ root[Len(root)] # SEP

\* C8: the root's count_files is the length of the list, and its
\* count_dirs is the number of distinct directories (by normalised names)
\* that the paths name below the root.
C8_TreeCounts ==
    pc \notin {"start", "root"} =>
        /\ count_files(tree, <<>>) = Len(songlist)
        /\ count_dirs(tree, <<>>) = Cardinality({NormAll(d) : d \in SourceDirs})

\* what the volume held when cleanup_volume started and the songs name:
\* a file at the relative path of a song, a directory a song lies in
Matched(loc) ==
    \/ /\ loc \in VolumeFiles(fs0)
       /\ \E i \in Songs : EquivalentAll(Below(loc), RelParts(i))
    \/ /\ loc \in VolumeDirs(fs0)
       /\ \E d \in SourceDirs : EquivalentAll(Below(loc), d)

\* C2: cleanup_volume issues no delete for an entry of the volume that has
\* a match in the source tree at its relative path, at any depth, the files
\* directly in the root included.
C2_KeepsMatched ==
    pc \notin {"start", "root"} =>
        \A k \in Logged({"rm", "rmdir"}) : ~Matched(log[k].loc)

\* the tree node a location of the volume belongs to lies on a chain of
\* children from the tree root
OnChain(rel) == NormAll(rel) \in DOMAIN tree

\* C3: when cleanup_volume has finished, every directory left on the volume
\* follows, name by normalised name, a chain of children from the tree
\* root, and every file left has the normalised name of a file of the tree
\* node of its directory.
C3_OnlyMatchedRemain ==
    CleanupOver =>
        /\ \A d \in VolumeDirs(fs) : OnChain(Below(d))
        /\ \A x \in VolumeFiles(fs) :
              /\ OnChain(Below(Parent(x)))
              /\ norm(x[Len(x)]) \in SeqRange(NormAll(tree[NormAll(Below(Parent(x)))].files))

\* cleanup has deleted something, and a directory and a file in it are left
C3_Witness ==
    /\ CleanupOver
    /\ Logged({"rm", "rmdir"}) # {}
    /\ \E x \in VolumeFiles(fs) : Len(Below(x)) > 1

\* C9: cleanup_volume visits a directory before anything below it is
\* visited or deleted; below a directory it has deleted it visits nothing
\* and deletes nothing; and it misses no directory that is not below a
\* deleted one.
C9_TopDown ==
    /\ \A k \in Logged({"visit", "rm", "rmdir"}) :
          \A top \in Prefixes(log[k].loc) :
              IsUnder(top, VolumeLoc) =>
                  \E j \in 1..(k - 1) : log[j].op = "visit" /\ log[j].loc = top
    /\ \A j \in Logged({"rmdir"}) :
          \A k \in Logged({"visit", "rm", "rmdir"}) :
              k > j => ~IsUnder(log[k].loc, log[j].loc)
    /\ CleanupOver =>
          \A d \in VolumeDirs(fs0) :
              \/ \E k \in Logged({"visit"}) : log[k].loc = d
              \/ \E j \in Logged({"rmdir"}) : IsUnder(d, log[j].loc)

\* a deleted directory had a directory with a file in it
C9_Witness ==
    /\ CleanupOver
    /\ \E j \in Logged({"rmdir"}) :
          \E x \in VolumeFiles(fs0) : IsUnder(Parent(x), log[j].loc) /\ Parent(x) # log[j].loc

\* C10: every delete, directory creation and copy of a run is at or below
\* the volume.
C10_InsideVolume ==
    \A k \in Logged(Mutations) : IsUnder(log[k].loc, VolumeLoc)

\* C1: after one complete run the volume holds exactly the files of the
\* list: every song is on the volume at its path relative to the root, with
\* the size of its source file, and the volume holds no file and no
\* directory that the songs do not name.
C1_MirrorsSource ==
    (pc = "done" /\ run = 1) =>
        /\ \A i \in Songs :
              \E x \in VolumeFiles(fs) :
                  /\ EquivalentAll(Below(x), RelParts(i))
                  /\ fs.files[x] = SizeOf(songlist[i])
        /\ \A x \in VolumeFiles(fs) : \E i \in Songs : EquivalentAll(Below(x), RelParts(i))
        /\ \A d \in VolumeDirs(fs) : \E e \in SourceDirs : EquivalentAll(Below(d), e)

\* C4: the second of two copy_structure calls in succession copies nothing.
C4_SecondCopyIdle ==
    \A k \in Logged({"copy"}) : log[k].run = 1

\* C5: a second complete run after a first complete run deletes nothing,
\* creates no directory and copies nothing.
C5_SecondRunIdle ==
    \A k \in Logged(Mutations) : log[k].run = 1

\* a directory of the volume, spelled in composed form when cleanup_volume
\* started, that a song names in another spelling
ComposedTwin(d) ==
    /\ d \in VolumeDirs(fs0)
    /\ \A i \in 1..Len(Below(d)) : "^" \notin SeqRange(Below(d)[i])
    /\ \E i \in 1..Len(Below(d)) : Decompose(Below(d)[i]) # Below(d)[i]
    /\ \E e \in SourceDirs :
          /\ e = [i \in 1..Len(e) |-> Decompose(e[i])]
          /\ e # Below(d)
          /\ EquivalentAll(e, Below(d))

\* C6: a directory that the volume holds in composed form and a song names
\* in decomposed form is not deleted by cleanup_volume, and copy_structure
\* makes no directory of another spelling beside it.
C6_ComposedKept ==
    pc \in {"cleanup", "copy", "done", "crashed"} =>
        \A d \in VolumeDirs(fs0) :
            ComposedTwin(d) =>
                /\ d \in fs.dirs
                /\ \A k \in Logged({"rmdir"}) : ~IsUnder(d, log[k].loc)
                /\ \A t \in VolumeDirs(fs) \ VolumeDirs(fs0) : ~EquivalentAll(Below(t), Below(d))

\* the run is over, the composed directory was there from the start and a
\* song was copied into it
C6_Witness ==
    /\ pc = "done"
    /\ \E d \in VolumeDirs(fs0) :
          /\ ComposedTwin(d)
          /\ \E k \in Logged({"copy"}) : Parent(log[k].loc) = d

====
